---- MODULE Spec2Model ----
(***************************************************************************)
(* Model of video_creator.py: the batch controller create_multiple_videos, *)
(* the assembly pipeline create_video_with_zoom, the combination count     *)
(* calculate_possible_combinations and the zoom frame processor            *)
(* process_frame.                                                          *)
(*                                                                         *)
(* Image files are the integers 1..total_images (their order is the        *)
(* lexicographic order of the file names).  Wall-clock time is counted in  *)
(* ticks of 1/TicksPerSecond second: clock is the tick in which time.time()*)
(* was last read, and it never runs backwards.  Frame times are t = f/Fps. *)
(***************************************************************************)
EXTENDS Integers, Sequences, FiniteSets, TLC

(* ---------------------------------------------------------------- bounds *)
MaxImages == 10
MaxVideos == 2
MaxUsedSets == 600
MaxClock == 3
MaxN == 11
MaxDim == 8
TicksPerSecond == 2

(* ----------------------------------------------------- program constants *)
CombinationSize == 8
DefaultMinVideos == 10
ClipDuration == 2
Fps == 24
ZoomDen == 5

TotalDuration == CombinationSize * ClipDuration

VARIABLES
    total_images,           \* len(image_files)
    min_videos,             \* argument min_videos
    audio_duration,         \* duration of the file at audio_path
    pc,                     \* position in create_multiple_videos
    possible_combinations,
    videos_to_create,
    used_combinations,
    created_videos,
    selected_files,
    clock,                  \* time.time(), in ticks
    open_resources,         \* handles left open by the last create_video_with_zoom
    output_files,           \* paths whose write_videofile completed
    error,                  \* exception that left create_multiple_videos
    last_error,             \* exception caught by the loop's except clause
    comb,                   \* one call of calculate_possible_combinations
    zoom                    \* one call of process_frame

vars == <<total_images, min_videos, audio_duration, pc, possible_combinations,
          videos_to_create, used_combinations, created_videos, selected_files,
          clock, open_resources, output_files, error, last_error, comb, zoom>>

batch_vars == <<total_images, min_videos, audio_duration, pc, possible_combinations,
                videos_to_create, used_combinations, created_videos, selected_files,
                clock, open_resources, output_files, error, last_error>>

(* --------------------------------------------------------------- helpers *)
Min(a, b) == IF a <= b THEN a ELSE b

Range(s) == {s[i] : i \in 1..Len(s)}

RECURSIVE Binomial(_, _)
\* Pascal's rule, the reference the combination count is compared with.
Binomial(n, k) ==
    IF k < 0 \/ k > n THEN 0
    ELSE IF k = 0 \/ k = n THEN 1
    ELSE Binomial(n - 1, k - 1) + Binomial(n - 1, k)

(* ------------------------------------- calculate_possible_combinations *)
RECURSIVE FactorialOf(_)
FactorialOf(n) == IF n = 0 THEN 1 ELSE n * FactorialOf(n - 1)

\* math.factorial raises ValueError for a negative argument.
FactorialRaises(n) == n < 0

calculate_possible_combinations_no_nr(n, r) ==
    IF FactorialRaises(n) \/ FactorialRaises(r) \/ FactorialRaises(n - r)
    THEN 0
    ELSE FactorialOf(n) \div FactorialOf(r)

calculate_possible_combinations(n, r) ==
    IF FactorialRaises(n) \/ FactorialRaises(r) \/ FactorialRaises(n - r)
    THEN 0
    ELSE FactorialOf(n) \div (FactorialOf(r) * FactorialOf(n - r))

(* ----------------------------------------------------- process_frame *)
ScaleDen == ZoomDen * Fps

ScaleNumShrink(f) == ScaleDen - f

\* scale = 1 + 0.2 * t with t = f / Fps, as the fraction ScaleNum(f) / ScaleDen.
ScaleNum(f) == ScaleDen + f

\* int(dim * scale).  The float product of an exactly integral dim * scale may
\* fall just below the integer, and int() then yields one less: ulp is that loss.
UlpChoices(dim, f) ==
    IF f > 0 /\ (dim * ScaleNum(f)) % ScaleDen = 0 THEN {0, 1} ELSE {0}

ScaledDim(dim, f, ulp) == (dim * ScaleNum(f)) \div ScaleDen - ulp

\* Python's a[start:stop] on an axis of length len: how many entries it yields.
SliceIndex(i, len) ==
    IF i < 0 THEN (IF i + len < 0 THEN 0 ELSE i + len)
    ELSE (IF i > len THEN len ELSE i)

SliceLen(start, stop, len) ==
    LET a == SliceIndex(start, len)
        b == SliceIndex(stop, len)
    IN IF b > a THEN b - a ELSE 0

process_frame(w, h, f, ulp_w, ulp_h) ==
    LET scaled_w == ScaledDim(w, f, ulp_w)
        scaled_h == ScaledDim(h, f, ulp_h)
        x == (scaled_w - w) \div 2
        y == (scaled_h - h) \div 2
    IN [scaled_w |-> scaled_w, scaled_h |-> scaled_h, x |-> x, y |-> y,
        out_w |-> SliceLen(x, x + w, scaled_w),
        out_h |-> SliceLen(y, y + h, scaled_h)]

(* ------------------------------------------------ random.sample, sorted *)
\* sorted(s): a stable sort; position i holds the entry of s that has i - 1
\* entries before it in the order (smaller, or equal and earlier in s).
sorted(s) ==
    LET before(j) == {k \in 1..Len(s) : s[k] < s[j] \/ (s[k] = s[j] /\ k < j)}
    IN [i \in 1..Len(s) |-> s[CHOOSE j \in 1..Len(s) : Cardinality(before(j)) = i - 1]]

Ascending(S) ==
    [i \in 1..Cardinality(S) |-> CHOOSE x \in S : Cardinality({y \in S : y < x}) = i - 1]

Reverse(s) == [i \in 1..Len(s) |-> s[Len(s) + 1 - i]]

Rotate(s) == [i \in 1..Len(s) |-> s[(i % Len(s)) + 1]]

Combinations(n) == {S \in SUBSET (1..n) : Cardinality(S) = CombinationSize}

\* The draws of random.sample(image_files, 8) that are explored: every
\* 8-subset of the pool, in three of its orders.
Samples ==
    [n \in 0..MaxImages |->
        UNION {{Ascending(S), Reverse(Ascending(S)), Rotate(Ascending(S))} :
               S \in Combinations(n)}]

SelectFilesUnsorted(sample) == sample

\* tuple(sorted(random.sample(image_files, 8)))
SelectFiles(sample) == sorted(sample)

IsDuplicate(selected, used) == selected \in used

(* ------------------------------------------------ create_multiple_videos *)
NeverInsufficient(n) == FALSE

\* if total_images < 8: raise ValueError
InsufficientImages(n) == n < CombinationSize

VideosToCreateUncapped(requested, possible) == requested

VideosToCreate(requested, possible) == Min(requested, possible)

LoopConditionInclusive(created, target) == Len(created) <= target

LoopCondition(created, target) == Len(created) < target

ExceptHandlerContinues == "loop"

\* except Exception: ... break, and the return that follows the loop.
ExceptHandlerPc == "returned"

(* ------------------------------------------------ create_video_with_zoom *)
\* The handles a call holds: clip i is the zoomed clip built from image i (with
\* the image clip it wraps), audio the audio clip, final the concatenated clip.
NoResources == [clips |-> {}, audio |-> FALSE, final |-> FALSE]

\* int(time.time())
Timestamp(ticks) == ticks \div TicksPerSecond

\* os.path.join(output_folder, f'output_video_{timestamp}.mp4')
OutputPath(timestamp) == <<"output_video_", timestamp, ".mp4">>

\* audio.subclip(0, t_end): the library rejects only a start beyond the
\* audio's end; the sub-clip's duration is t_end - t_start whatever the
\* audio's own duration is.
Subclip(duration, t_start, t_end) ==
    [raised |-> t_start > duration, duration |-> t_end - t_start]

\* Where a call can fail: decoding image i, loading the audio, encoding.
FailurePoints ==
    {[at |-> "none", i |-> 0], [at |-> "audio", i |-> 0], [at |-> "encode", i |-> 0]}
    \cup {[at |-> "decode", i |-> i] : i \in 1..CombinationSize}

create_video_with_zoom(selected, audio_dur, fail, ticks) ==
    LET n == Len(selected)
        all_clips == 1..n
        sub == Subclip(audio_dur, 0, n * ClipDuration)
        path == OutputPath(Timestamp(ticks))
    IN  IF fail.at = "decode" /\ fail.i <= n
        THEN \* ImageClip(img_path) raises: the clips built so far stay open
             [raised |-> "DecodeFailure", path |-> path, written |-> FALSE,
              open |-> [clips |-> 1..(fail.i - 1), audio |-> FALSE, final |-> FALSE]]
        ELSE IF fail.at = "audio"
        THEN \* AudioFileClip(audio_path) raises
             [raised |-> "DecodeFailure", path |-> path, written |-> FALSE,
              open |-> [clips |-> all_clips, audio |-> FALSE, final |-> TRUE]]
        ELSE IF sub.raised
        THEN [raised |-> "ValueError", path |-> path, written |-> FALSE,
              open |-> [clips |-> all_clips, audio |-> TRUE, final |-> TRUE]]
        ELSE IF fail.at = "encode"
        THEN \* write_videofile raises: lines 85-88 are skipped
             [raised |-> "EncodeFailure", path |-> path, written |-> FALSE,
              open |-> [clips |-> all_clips, audio |-> TRUE, final |-> TRUE]]
        ELSE \* final_clip.close(); audio.close(); clip.close() for each clip
             [raised |-> "none", path |-> path, written |-> TRUE,
              open |-> NoResources]

(* ------------------------------------------------------------ the batch *)
NoFrame == [scaled_w |-> 0, scaled_h |-> 0, x |-> 0, y |-> 0, out_w |-> 0, out_h |-> 0]
NoComb == [n |-> 0, r |-> 0, done |-> FALSE, result |-> 0]
NoZoom == [w |-> 0, h |-> 0, f |-> 0, done |-> FALSE, frame |-> NoFrame]

\* How many values used_combinations can take for c combinations and a target
\* of k videos: the sum of the binomials C(c, 0..k), cut off once it passes limit.
RECURSIVE UsedSetCountFrom(_, _, _, _, _, _)
UsedSetCountFrom(c, k, j, term, acc, limit) ==
    IF j > k \/ acc > limit THEN acc
    ELSE LET next == (term * (c - j + 1)) \div j
         IN UsedSetCountFrom(c, k, j + 1, next, acc + next, limit)

UsedSetCount(c, k, limit) == UsedSetCountFrom(c, k, 1, 1, 1, limit)

Requests == (0..MaxVideos) \cup {DefaultMinVideos}

AudioDurations == {TotalDuration - 1, TotalDuration}

Init ==
    /\ total_images \in 0..MaxImages
    /\ min_videos \in Requests
    /\ UsedSetCount(Binomial(total_images, CombinationSize),
                    Min(min_videos, Binomial(total_images, CombinationSize)),
                    MaxUsedSets) <= MaxUsedSets
    /\ audio_duration \in AudioDurations
    /\ pc = "start"
    /\ possible_combinations = 0
    /\ videos_to_create = 0
    /\ used_combinations = {}
    /\ created_videos = <<>>
    /\ selected_files = <<>>
    /\ clock = 0
    /\ open_resources = NoResources
    /\ output_files = {}
    /\ error = "none"
    /\ last_error = "none"
    /\ comb = NoComb
    /\ zoom = NoZoom

\* Lines 104-115: count the combinations, reject a pool that is too small,
\* fix the number of videos.
Begin ==
    /\ pc = "start"
    /\ possible_combinations' =
          calculate_possible_combinations(total_images, CombinationSize)
    /\ IF InsufficientImages(total_images)
       THEN /\ pc' = "raised"
            /\ error' = "InsufficientImages"
            /\ UNCHANGED videos_to_create
       ELSE /\ pc' = "loop"
            /\ videos_to_create' = VideosToCreate(min_videos, possible_combinations')
            /\ UNCHANGED error
    /\ UNCHANGED <<total_images, min_videos, audio_duration, used_combinations,
                   created_videos, selected_files, clock, open_resources,
                   output_files, last_error, comb, zoom>>

\* Lines 121-124: the loop condition holds and a sample is drawn.
Draw(sample) ==
    /\ pc = "loop"
    /\ LoopCondition(created_videos, videos_to_create)
    /\ selected_files' = SelectFiles(sample)
    /\ pc' = "drawn"
    /\ UNCHANGED <<total_images, min_videos, audio_duration, possible_combinations,
                   videos_to_create, used_combinations, created_videos, clock,
                   open_resources, output_files, error, last_error, comb, zoom>>

\* Lines 127-128: the drawn combination was used already.
Continue ==
    /\ pc = "drawn"
    /\ IsDuplicate(selected_files, used_combinations)
    /\ pc' = "loop"
    /\ UNCHANGED <<total_images, min_videos, audio_duration, possible_combinations,
                   videos_to_create, used_combinations, created_videos,
                   selected_files, clock, open_resources, output_files, error,
                   last_error, comb, zoom>>

\* Lines 130-148: one video is attempted; it is recorded, or the exception
\* is caught and the loop is left.
Generate(fail, ticks) ==
    /\ pc = "drawn"
    /\ ~IsDuplicate(selected_files, used_combinations)
    /\ ticks >= clock
    /\ LET r == create_video_with_zoom(selected_files, audio_duration, fail, ticks)
       IN /\ clock' = ticks
          /\ open_resources' = r.open
          /\ output_files' = IF r.written THEN output_files \cup {r.path}
                             ELSE output_files
          /\ IF r.raised = "none"
             THEN /\ created_videos' = Append(created_videos, r.path)
                  /\ used_combinations' = used_combinations \cup {selected_files}
                  /\ pc' = "loop"
                  /\ UNCHANGED <<last_error, selected_files>>
             ELSE /\ last_error' = r.raised
                  /\ pc' = ExceptHandlerPc
                  /\ selected_files' = IF pc' = "returned" THEN <<>> ELSE selected_files
                  /\ UNCHANGED <<created_videos, used_combinations>>
    /\ UNCHANGED <<total_images, min_videos, audio_duration, possible_combinations,
                   videos_to_create, error, comb, zoom>>

\* Lines 121, 150: the loop condition fails and created_videos is returned.
Return ==
    /\ pc = "loop"
    /\ ~LoopCondition(created_videos, videos_to_create)
    /\ pc' = "returned"
    /\ selected_files' = <<>>
    /\ UNCHANGED <<total_images, min_videos, audio_duration, possible_combinations,
                   videos_to_create, used_combinations, created_videos, clock,
                   open_resources, output_files, error, last_error, comb, zoom>>

DrawAny == \E sample \in Samples[total_images] : Draw(sample)

GenerateAny == \E fail \in FailurePoints, ticks \in 0..MaxClock : Generate(fail, ticks)

Next == Begin \/ DrawAny \/ Continue \/ GenerateAny \/ Return

Spec == Init /\ [][Next]_vars

\* A draw of a combination that was not used yet.
DrawFresh ==
    /\ pc = "loop"
    /\ \E sample \in Samples[total_images] :
          /\ ~IsDuplicate(SelectFiles(sample), used_combinations)
          /\ Draw(sample)

\* The runs whose termination is explored: every pool, with the default
\* request for the pools that hold a single combination and the small requests
\* for the others, and an audio of the full length.
InitLive ==
    /\ Init
    /\ total_images > CombinationSize => min_videos <= MaxVideos
    /\ audio_duration = TotalDuration

\* Every step of the sequential program is eventually taken, and random.sample
\* does not avoid the unused combinations forever.
SpecLive == InitLive /\ [][Next]_vars /\ WF_vars(Next) /\ SF_vars(DrawFresh)

(* ------------------------------ calculate_possible_combinations, alone *)
BatchIdle ==
    /\ total_images = 0
    /\ min_videos = 0
    /\ audio_duration = TotalDuration
    /\ pc = "idle"
    /\ possible_combinations = 0
    /\ videos_to_create = 0
    /\ used_combinations = {}
    /\ created_videos = <<>>
    /\ selected_files = <<>>
    /\ clock = 0
    /\ open_resources = NoResources
    /\ output_files = {}
    /\ error = "none"
    /\ last_error = "none"

\* The arguments explored: n >= 0, and every r from n - 8 for the smallest n up
\* to the largest n.
InitComb ==
    /\ BatchIdle
    /\ zoom = NoZoom
    /\ comb \in [n : 0..MaxN, r : (0 - CombinationSize)..MaxN,
                 done : {FALSE}, result : {0}]

Calculate ==
    /\ ~comb.done
    /\ comb' = [comb EXCEPT !.done = TRUE,
                            !.result = calculate_possible_combinations(comb.n, comb.r)]
    /\ UNCHANGED <<batch_vars, zoom>>

NextComb == Calculate

SpecComb == InitComb /\ [][NextComb]_vars

(* ------------------------------------------------ process_frame, alone *)
FrameIndexes == 0..(ClipDuration * Fps - 1)

InitZoom ==
    /\ BatchIdle
    /\ comb = NoComb
    /\ zoom \in [w : 1..MaxDim, h : 1..MaxDim, f : FrameIndexes,
                 done : {FALSE}, frame : {NoFrame}]

ProcessFrame ==
    /\ ~zoom.done
    /\ \E ulp_w \in UlpChoices(zoom.w, zoom.f), ulp_h \in UlpChoices(zoom.h, zoom.f) :
          zoom' = [zoom EXCEPT !.done = TRUE,
                               !.frame = process_frame(zoom.w, zoom.h, zoom.f,
                                                       ulp_w, ulp_h)]
    /\ UNCHANGED <<batch_vars, comb>>

NextZoom == ProcessFrame

SpecZoom == InitZoom /\ [][NextZoom]_vars

(* ================================================================ claims *)
ImageSets == {Range(c) : c \in used_combinations}

\* C1: within one batch run no two recorded videos come from the same set of
\* 8 images: the recorded combinations name as many distinct image sets as
\* there are recorded videos, and each is a sorted tuple of 8 distinct images.
C1_NoRepeatedCombination ==
    /\ Cardinality(ImageSets) = Len(created_videos)
    /\ \A c \in used_combinations :
          /\ Len(c) = CombinationSize
          /\ Cardinality(Range(c)) = CombinationSize
          /\ \A i \in 1..(Len(c) - 1) : c[i] < c[i + 1]

\* A second video is recorded and a draw has just repeated a used combination.
C1_Witness ==
    /\ Len(created_videos) >= 2
    /\ pc = "drawn"
    /\ selected_files \in used_combinations

\* C2: a run in which no iteration failed returns exactly
\* min(min_videos, C(total_images, 8)) records, and no run ever holds more.
C2_ExactCount ==
    LET target == Min(min_videos, Binomial(total_images, CombinationSize))
    IN /\ pc \in {"loop", "drawn", "returned"} => Len(created_videos) <= target
       /\ (pc = "returned" /\ last_error = "none") => Len(created_videos) = target

\* Nine images, ten videos requested, nine records returned.
C2_Witness ==
    /\ pc = "returned"
    /\ last_error = "none"
    /\ total_images = CombinationSize + 1
    /\ min_videos = DefaultMinVideos
    /\ Len(created_videos) = CombinationSize + 1

\* C3 (as claimed): whenever create_video_with_zoom has returned or raised, no
\* clip, audio or final-clip handle it opened is left open.
C3_ReleasedOnEveryExit == open_resources = NoResources

\* C4 (as claimed): the output paths of one batch run are pairwise different.
C4_PathsNeverCollide ==
    \A i, j \in 1..Len(created_videos) :
        i # j => created_videos[i] # created_videos[j]

\* C5: a step in which the except clause has caught a failure leaves the batch
\* returned, with no exception propagated, with the records and the used
\* combinations as they were before the failing call; nothing follows it.
C5_FailureAbortsBatch ==
    [][last_error' # "none" =>
          /\ last_error = "none"
          /\ pc = "drawn"
          /\ pc' = "returned"
          /\ error' = "none"
          /\ created_videos' = created_videos
          /\ used_combinations' = used_combinations
          /\ output_files' = output_files]_vars

\* A failure after at least one video was recorded.
C5_Witness ==
    /\ last_error # "none"
    /\ pc = "returned"
    /\ Len(created_videos) >= 1

\* C6: with fewer than 8 images the batch ends with the insufficient-images
\* error: the combination count was computed (as 0) without raising, nothing
\* was sampled, recorded, opened or written.
C6_InsufficientPoolRejected ==
    (total_images < CombinationSize /\ pc # "start") =>
        /\ pc = "raised"
        /\ error = "InsufficientImages"
        /\ possible_combinations = 0
        /\ used_combinations = {}
        /\ created_videos = <<>>
        /\ selected_files = <<>>
        /\ open_resources = NoResources
        /\ output_files = {}
        /\ last_error = "none"

\* Seven images: the largest pool that is rejected.
C6_Witness ==
    /\ pc = "raised"
    /\ total_images = CombinationSize - 1
    /\ error = "InsufficientImages"

\* C7 (as claimed): with an audio shorter than 8 x 2 time units no video is
\* recorded and no output file is written.
C7_ShortAudioRaises ==
    audio_duration < TotalDuration =>
        /\ created_videos = <<>>
        /\ output_files = {}

\* C8: calculate_possible_combinations(n, 8) equals
\* calculate_possible_combinations(n, n - 8); both are 0 for n < 8 and the
\* binomial coefficient C(n, 8) for n >= 8.
C8_CountSymmetric ==
    (comb.done /\ comb.r \in {CombinationSize, comb.n - CombinationSize}) =>
        /\ comb.result = calculate_possible_combinations(
                             comb.n, comb.n - comb.r)
        /\ comb.n < CombinationSize => comb.result = 0
        /\ comb.n >= CombinationSize => comb.result = Binomial(comb.n, CombinationSize)

\* The count for ten images, asked for as C(10, 2).
C8_Witness ==
    /\ comb.done
    /\ comb.n = CombinationSize + 2
    /\ comb.r = comb.n - CombinationSize
    /\ comb.result = 45

\* C9: the crop window of process_frame lies inside the scaled frame and the
\* cropped frame is w x h; at t = 0 the frame is not scaled and the crop
\* origin is (0, 0).
C9_CropInsideFrame ==
    zoom.done =>
        LET fr == zoom.frame
        IN /\ 0 <= fr.x
           /\ fr.x + zoom.w <= fr.scaled_w
           /\ 0 <= fr.y
           /\ fr.y + zoom.h <= fr.scaled_h
           /\ fr.out_w = zoom.w
           /\ fr.out_h = zoom.h
           /\ zoom.f = 0 =>
                 /\ fr.scaled_w = zoom.w
                 /\ fr.scaled_h = zoom.h
                 /\ fr.x = 0
                 /\ fr.y = 0

\* A frame late in the clip whose crop removes columns and rows on each side.
C9_Witness ==
    /\ zoom.done
    /\ zoom.f > 0
    /\ zoom.frame.x > 0
    /\ zoom.frame.y > 0
    /\ zoom.frame.scaled_w > zoom.w + 1

\* C10: under fair drawing create_multiple_videos eventually returns or raises.
C10_BatchTerminates == <>(pc \in {"returned", "raised"})

\* A draw is about to be rejected as a duplicate while the target is not met.
C10_Witness ==
    /\ pc = "drawn"
    /\ IsDuplicate(selected_files, used_combinations)
    /\ LoopCondition(created_videos, videos_to_create)

====
